---------------------------- MODULE Spec2Model ----------------------------
(***************************************************************************)
(* obj-alloc: the identifier store (IdMap, src/src/id_map.rs) and the      *)
(* allocator (ObjAllocator, src/src/lib.rs) that keeps an IdMap and a      *)
(* field index (FieldCollex, an external crate) in step.                   *)
(*                                                                         *)
(* Identifiers are u64 in the source.  The model keeps the wrap-around of  *)
(* the counter but scales the width to IdBits bits: U64Max stands for      *)
(* u64::MAX.  `max_id += 1` panics in a build with overflow checks and     *)
(* wraps in a build without them; overflow_checks is the build's choice.   *)
(***************************************************************************)
EXTENDS Integers, Sequences, FiniteSets, TLC

VARIABLES
    id_map,           \* IdMap<K,V>: [inner : u64 -|-> V, max_id : u64]
    collex,           \* FieldCollex<Obj<K,E>,V>: [span, unit, elems]
    overflow_checks,  \* the build: TRUE = arithmetic overflow panics
    panicked,         \* TRUE once a call has panicked (the program is gone)
    issued,           \* history: identifiers issued or manually inserted so far
    n_insert,         \* history: number of completed IdMap::insert calls
    manual,           \* history: an insert_with_id / insert_cyclic has run
    n_ops,            \* history: number of calls made so far
    removed,          \* history: identifiers ObjAllocator::remove has removed
    last              \* history: the last call, its arguments, its result, the state before it

vars == <<id_map, collex, overflow_checks, panicked, issued, n_insert, manual, n_ops, removed, last>>

---------------------------------------------------------------------------
(* Bounds of the model. *)

IdBits == 3          \* width of an identifier in the model (u64 in the source)
MaxManual == 1       \* manual identifiers tried by insert_with_id: 0..MaxManual and u64::MAX
MaxInserts == 3      \* IdMap::insert / insert_cyclic calls in one run of the store
MaxStoreOps == 4     \* calls in one run of the store
MaxVal == 3          \* derived field values are 0..MaxVal
MaxBatch == 2        \* longest vector handed to extend / try_extend
MaxIssue == 3        \* identifiers an allocator issues in one run
MaxOps == 3          \* calls in one run of the allocator
MaxNested == 2       \* identifiers a closure issues inside one insert_cyclic

IdMod == 2 ^ IdBits
U64Max == IdMod - 1
Ids == 0 .. U64Max
ManualIds == (0 .. MaxManual) \cup {U64Max}
Vals == 0 .. MaxVal
Tags == {0, 1}            \* the rest of an object's state
StoreVals == {0, 1}

---------------------------------------------------------------------------
(* Option<T>: None is the empty set, Some(x) the singleton. *)

None == {}
Some(x) == {x}
IsSome(o) == o # {}
Unwrap(o) == CHOOSE x \in o : TRUE

(* HashMap<u64,V> as a function with a finite domain. *)
EmptyMap == [k \in {} |-> 0]
HashMap_insert(h, k, v) == [x \in (DOMAIN h) \cup {k} |-> IF x = k THEN v ELSE h[x]]
HashMap_remove(h, k) == [x \in (DOMAIN h) \ {k} |-> h[x]]
HashMap_get(h, k) == IF k \in DOMAIN h THEN Some(h[k]) ELSE None

---------------------------------------------------------------------------
(* IdMap, src/src/id_map.rs.  Each operation is an operator from the map   *)
(* to the map after the call (map) and the value returned (ret).           *)

IdMap_with_id == [inner |-> EmptyMap, max_id |-> 0]

(* `self.max_id += 1` overflows exactly when max_id = u64::MAX. *)
IdMap_overflows(m) == m.max_id = U64Max

(* Mutant of IdMap_insert: the counter is read but not advanced. *)
IdMap_insert_noadvance(m, value) ==
    LET id_u64 == (m.max_id + 1) % IdMod IN
    [map |-> [inner |-> HashMap_insert(m.inner, id_u64, value), max_id |-> m.max_id],
     ret |-> id_u64]

IdMap_insert(m, value) ==
    LET id_u64 == (m.max_id + 1) % IdMod IN
    [map |-> [inner |-> HashMap_insert(m.inner, id_u64, value), max_id |-> id_u64],
     ret |-> id_u64]

(* Mutant of IdMap_insert_with_id: max_id is set to id even when id is lower. *)
IdMap_insert_with_id_lowering(m, id, value) ==
    [map |-> [inner |-> HashMap_insert(m.inner, id, value), max_id |-> id],
     ret |-> HashMap_get(m.inner, id)]

IdMap_insert_with_id(m, id, value) ==
    [map |-> [inner |-> HashMap_insert(m.inner, id, value),
              max_id |-> IF id > m.max_id THEN id ELSE m.max_id],
     ret |-> HashMap_get(m.inner, id)]

(* f is the closure's result as a function of the identifier it is given.  *)
(* Here the closure does not reach the store, which insert_cyclic holds   *)
(* by &mut; IdMap_insert_cyclic_reentrant is the call with one that does.  *)
IdMap_insert_cyclic(m, f) ==
    LET new_id == (m.max_id + 1) % IdMod IN
    [map |-> [inner |-> HashMap_insert(m.inner, new_id, f[new_id]), max_id |-> new_id],
     ret |-> new_id]

(* insert_cyclic with a closure that reaches the store it is called from  *)
(* (through an alias of the &mut the call holds): before it returns        *)
(* f.val, the closure calls insert(f.inner_val) f.nested times.  Line 174  *)
(* stores under self.max_id; with the alias live the build may read the    *)
(* field again (reread) or keep the value it read at line 172.             *)
RECURSIVE NestedInserts(_, _, _)
NestedInserts(m, n, value) ==
    IF n = 0 THEN [map |-> m, ids |-> {}]
    ELSE LET r == IdMap_insert(m, value)
             rest == NestedInserts(r.map, n - 1, value)
         IN  [map |-> rest.map, ids |-> {r.ret} \cup rest.ids]

IdMap_insert_cyclic_reentrant(m, f, reread) ==
    LET new_id == (m.max_id + 1) % IdMod
        m1 == [inner |-> m.inner, max_id |-> new_id]
        in_f == NestedInserts(m1, f.nested, f.inner_val)
        key == IF reread THEN in_f.map.max_id ELSE new_id
    IN  [map |-> [inner |-> HashMap_insert(in_f.map.inner, key, f.val),
                  max_id |-> in_f.map.max_id],
         ret |-> new_id,
         nested_ids |-> in_f.ids]

IdMap_get(m, id) == HashMap_get(m.inner, id)

(* Mutant of IdMap_remove: removing the highest identifier gives it back. *)
IdMap_remove_reusing(m, id) ==
    [map |-> [inner |-> HashMap_remove(m.inner, id),
              max_id |-> IF id = m.max_id /\ id > 0 THEN id - 1 ELSE m.max_id],
     ret |-> HashMap_get(m.inner, id)]

IdMap_remove(m, id) ==
    [map |-> [inner |-> HashMap_remove(m.inner, id), max_id |-> m.max_id],
     ret |-> HashMap_get(m.inner, id)]

IdMap_contains_id(m, id) == id \in DOMAIN m.inner

IdMap_max_id(m) == m.max_id

IdMap_len(m) == Cardinality(DOMAIN m.inner)

IdMap_clear(m) == [inner |-> EmptyMap, max_id |-> m.max_id]

(* *self.id_map.get_mut(id).unwrap() = v, for an id that is present. *)
IdMap_set(m, id, v) == [inner |-> [m.inner EXCEPT ![id] = v], max_id |-> m.max_id]

---------------------------------------------------------------------------
(* Objects and Records.  An object E is its derived field (val) and the    *)
(* rest of its state (tag); a Record Obj<K,E> is the pair (K, E).          *)

Elems == [val : Vals, tag : Tags]
Collexate(e) == e.val
Obj(k, e) == <<k, e>>
Obj_collexate(o) == Collexate(o[2])

(* Result<T,E>, in one shape: v holds the payload of Ok or of Err. *)
Ok(x) == [ok |-> TRUE, err |-> "", v |-> {x}]
Err(e, x) == [ok |-> FALSE, err |-> e, v |-> {x}]
Unit == <<>>

---------------------------------------------------------------------------
(* FieldCollex (crate field_collex): the field index, by its interface.    *)
(* elems maps a derived value inside the span to the one Record holding it.*)

ASpan == <<1, MaxVal>>      \* Span::Finite(1 .. MaxVal)
AUnit == 1

FieldCollex_new(span, unit) == [span |-> span, unit |-> unit, elems |-> EmptyMap]

InSpan(c, v) == c.span[1] <= v /\ v < c.span[2]

FieldCollex_insert(c, o) ==
    LET v == Obj_collexate(o) IN
    IF ~InSpan(c, v) THEN [collex |-> c, ret |-> Err("OutOfSpan", o)]
    ELSE IF v \in DOMAIN c.elems THEN [collex |-> c, ret |-> Err("AlreadyExist", o)]
    ELSE [collex |-> [c EXCEPT !.elems = HashMap_insert(@, v, o)], ret |-> Ok(Unit)]

FieldCollex_remove(c, v) ==
    [collex |-> [c EXCEPT !.elems = HashMap_remove(@, v)], ret |-> HashMap_get(c.elems, v)]

FieldCollex_get(c, v) == HashMap_get(c.elems, v)

(* modify / try_modify(v, closure): the closure takes the Record at v to   *)
(* the Record g[o]; the index re-places it under its new derived value, or *)
(* fails and keeps everything as it was.                                   *)
FieldCollex_modify(c, v, g) ==
    IF v \notin DOMAIN c.elems THEN [collex |-> c, ret |-> Err("CannotFind", Unit)]
    ELSE LET o == g[c.elems[v]]
             new_v == Obj_collexate(o)
         IN  IF new_v = v
             THEN [collex |-> [c EXCEPT !.elems[v] = o], ret |-> Ok(new_v)]
             ELSE IF ~InSpan(c, new_v) THEN [collex |-> c, ret |-> Err("OutOfSpan", Unit)]
             ELSE IF new_v \in DOMAIN c.elems
                  THEN [collex |-> c, ret |-> Err("AlreadyExist", Unit)]
             ELSE [collex |-> [c EXCEPT !.elems =
                                    HashMap_insert(HashMap_remove(@, v), new_v, o)],
                   ret |-> Ok(new_v)]

FieldCollex_try_modify(c, v, g) == FieldCollex_modify(c, v, g)

(* extend(records): places each Record in turn and drops the ones refused. *)
RECURSIVE FieldCollex_extend(_, _)
FieldCollex_extend(c, other) ==
    IF other = <<>> THEN c
    ELSE FieldCollex_extend(FieldCollex_insert(c, Head(other)).collex, Tail(other))

(* try_extend(records): places each Record in turn up to the first one     *)
(* refused, which it reports; those placed before it stay.                 *)
RECURSIVE FieldCollex_try_extend(_, _)
FieldCollex_try_extend(c, other) ==
    IF other = <<>> THEN [collex |-> c, ret |-> Ok(Unit)]
    ELSE LET r == FieldCollex_insert(c, Head(other)) IN
         IF r.ret.ok THEN FieldCollex_try_extend(r.collex, Tail(other))
         ELSE [collex |-> c, ret |-> r.ret]

---------------------------------------------------------------------------
(* The state after construction: IdMap::with_id() and ObjAllocator::new.   *)

NoCall ==
    [op |-> "new", id |-> 0, val |-> 0, ret |-> None, panic |-> FALSE,
     pre |-> IdMap_with_id, pre_issued |-> {},
     prev |-> [op |-> "none", id |-> 0, raised |-> FALSE]]

Init ==
    /\ id_map = IdMap_with_id
    /\ collex = FieldCollex_new(ASpan, AUnit)
    /\ overflow_checks \in BOOLEAN
    /\ panicked = FALSE
    /\ issued = {}
    /\ n_insert = 0
    /\ manual = FALSE
    /\ n_ops = 0
    /\ removed = {}
    /\ last = NoCall

Prev(raised) == [op |-> last.op, id |-> last.id, raised |-> raised]
PrevCall == Prev(last.op = "IdMap::insert_with_id" /\ last.id > last.pre.max_id)

Call(op, id, val, ret) ==
    [op |-> op, id |-> id, val |-> val, ret |-> ret, panic |-> FALSE,
     pre |-> id_map, pre_issued |-> issued, prev |-> PrevCall]

(* A call that panics: nothing is written, the program ends. *)
Panic(op, id, val) ==
    /\ panicked' = TRUE
    /\ last' = [Call(op, id, val, None) EXCEPT !.panic = TRUE]
    /\ n_ops' = n_ops + 1
    /\ UNCHANGED <<id_map, collex, overflow_checks, issued, n_insert, manual, removed>>

---------------------------------------------------------------------------
(* The identifier store on its own: calls on one IdMap. *)

StoreReady == ~panicked /\ n_ops < MaxStoreOps

StoreInsert ==
    /\ StoreReady
    /\ n_insert < MaxInserts
    /\ \E value \in StoreVals :
        IF IdMap_overflows(id_map) /\ overflow_checks
        THEN Panic("IdMap::insert", 0, value)
        ELSE LET r == IdMap_insert(id_map, value) IN
             /\ id_map' = r.map
             /\ issued' = issued \cup {r.ret}
             /\ n_insert' = n_insert + 1
             /\ n_ops' = n_ops + 1
             /\ last' = Call("IdMap::insert", r.ret, value, Some(r.ret))
             /\ UNCHANGED <<collex, overflow_checks, panicked, manual, removed>>

StoreInsertWithId ==
    /\ StoreReady
    /\ \E id \in ManualIds, value \in StoreVals :
        LET r == IdMap_insert_with_id(id_map, id, value) IN
        /\ id_map' = r.map
        /\ issued' = issued \cup {id}
        /\ manual' = TRUE
        /\ n_ops' = n_ops + 1
        /\ last' = Call("IdMap::insert_with_id", id, value, r.ret)
        /\ UNCHANGED <<collex, overflow_checks, panicked, n_insert, removed>>

CyclicFns == {[i \in Ids |-> 0], [i \in Ids |-> i % 2]}

StoreInsertCyclic ==
    /\ StoreReady
    /\ n_insert < MaxInserts
    /\ \E f \in CyclicFns :
        IF IdMap_overflows(id_map) /\ overflow_checks
        THEN Panic("IdMap::insert_cyclic", 0, 0)
        ELSE LET r == IdMap_insert_cyclic(id_map, f) IN
             /\ id_map' = r.map
             /\ issued' = issued \cup {r.ret}
             /\ manual' = TRUE
             /\ n_ops' = n_ops + 1
             /\ last' = Call("IdMap::insert_cyclic", r.ret, f[r.ret], Some(r.ret))
             /\ UNCHANGED <<collex, overflow_checks, panicked, n_insert, removed>>

(* Identifiers a caller holds, and two it was never given. *)
ProbeIds == issued \cup {0, U64Max}

StoreRemove ==
    /\ StoreReady
    /\ \E id \in ProbeIds :
        LET r == IdMap_remove(id_map, id) IN
        /\ id_map' = r.map
        /\ n_ops' = n_ops + 1
        /\ last' = Call("IdMap::remove", id, 0, r.ret)
        /\ UNCHANGED <<collex, overflow_checks, panicked, issued, n_insert, manual, removed>>

StoreGetMut ==
    /\ StoreReady
    /\ \E id \in ProbeIds, value \in StoreVals :
        /\ id_map' = IF IdMap_contains_id(id_map, id) THEN IdMap_set(id_map, id, value)
                     ELSE id_map
        /\ n_ops' = n_ops + 1
        /\ last' = Call("IdMap::get_mut", id, value, IdMap_get(id_map, id))
        /\ UNCHANGED <<collex, overflow_checks, panicked, issued, n_insert, manual, removed>>

StoreClear ==
    /\ StoreReady
    /\ id_map' = IdMap_clear(id_map)
    /\ n_ops' = n_ops + 1
    /\ last' = Call("IdMap::clear", 0, 0, None)
    /\ UNCHANGED <<collex, overflow_checks, panicked, issued, n_insert, manual, removed>>

StoreNext ==
    \/ StoreInsert
    \/ StoreInsertWithId
    \/ StoreInsertCyclic
    \/ StoreRemove
    \/ StoreGetMut
    \/ StoreClear

SpecStore == Init /\ [][StoreNext]_vars

---------------------------------------------------------------------------
(* The identifier store called with closures that issue identifiers from   *)
(* it while insert_cyclic runs.                                            *)

(* The closures tried: f issues f.nested identifiers for the value 0, then *)
(* returns f.val.                                                          *)
ReentrantFns == [nested : 0 .. MaxNested, inner_val : {0}, val : StoreVals]

StoreInsertCyclicReentrant ==
    /\ StoreReady
    /\ \E f \in ReentrantFns, reread \in BOOLEAN :
        /\ n_insert + f.nested <= MaxInserts
        /\ LET r == IdMap_insert_cyclic_reentrant(id_map, f, reread) IN
           /\ id_map' = r.map
           /\ issued' = issued \cup {r.ret} \cup r.nested_ids
           /\ manual' = TRUE
           /\ n_insert' = n_insert + f.nested
           /\ n_ops' = n_ops + 1
           /\ last' = Call("IdMap::insert_cyclic", r.ret, f, r.nested_ids)
           /\ UNCHANGED <<collex, overflow_checks, panicked, removed>>

CyclicNext ==
    \/ StoreInsert
    \/ StoreInsertCyclicReentrant
    \/ StoreRemove

SpecCyclic == Init /\ [][CyclicNext]_vars

---------------------------------------------------------------------------
(* ObjAllocator, src/src/lib.rs.  Each operation is an operator from the   *)
(* two stores (m: the IdMap, c: the FieldCollex) to the stores after the   *)
(* call, the value returned, and whether the call panicked.                *)

(* fn insert(id_map, elem) -> Obj: issue an identifier, wrap into a Record *)
lib_insert(m, elem) ==
    LET r == IdMap_insert(m, Collexate(elem)) IN
    [map |-> r.map, obj |-> Obj(r.ret, elem)]

RECURSIVE extend_from_vec(_, _)
extend_from_vec(m, vec) ==
    IF vec = <<>> THEN [map |-> m, other |-> <<>>]
    ELSE LET r == lib_insert(m, Head(vec))
             rest == extend_from_vec(r.map, Tail(vec))
         IN  [map |-> rest.map, other |-> <<r.obj>> \o rest.other]

Done(m, c, ret) == [id_map |-> m, collex |-> c, ret |-> ret, panic |-> FALSE]
Abort(m, c) == [id_map |-> m, collex |-> c, ret |-> None, panic |-> TRUE]

(* Mutant of ObjAllocator_insert: a refused Record's identifier is not rolled back. *)
ObjAllocator_insert_norollback(m, c, elem) ==
    LET r1 == lib_insert(m, elem)
        id == r1.obj[1]
        r2 == FieldCollex_insert(c, r1.obj)
    IN  IF r2.ret.ok
        THEN Done(r1.map, r2.collex, Ok(id))
        ELSE Done(r1.map, r2.collex, Err(r2.ret.err, Unwrap(r2.ret.v)[2]))

ObjAllocator_insert(m, c, elem) ==
    LET r1 == lib_insert(m, elem)
        id == r1.obj[1]
        r2 == FieldCollex_insert(c, r1.obj)
    IN  IF r2.ret.ok
        THEN Done(r1.map, r2.collex, Ok(id))
        ELSE Done(IdMap_remove(r1.map, id).map, r2.collex,
                  Err(r2.ret.err, Unwrap(r2.ret.v)[2]))

ObjAllocator_remove(m, c, id) ==
    LET r1 == IdMap_remove(m, id) IN
    IF r1.ret = None THEN Done(r1.map, c, None)
    ELSE LET r2 == FieldCollex_remove(c, Unwrap(r1.ret)) IN
         IF r2.ret = None THEN Abort(r1.map, r2.collex)      \* unwrap() of None
         ELSE Done(r1.map, r2.collex, Some(Unwrap(r2.ret)[2]))

(* The closure handed to the index: |e| (f(e), e.collexate()) on a Record. *)
OnRecord(f) == [o \in Ids \X Elems |-> Obj(o[1], f[o[2]])]

(* Mutant of ObjAllocator_modify: the new derived value is written to the *)
(* IdMap before the index has accepted it.                                *)
ObjAllocator_modify_eager(m, c, id, f) ==
    LET v == IdMap_get(m, id) IN
    IF v = None THEN Done(m, c, Err("CannotFind", Unit))
    ELSE LET r == FieldCollex_modify(c, Unwrap(v), OnRecord(f))
             new_v == IF Unwrap(v) \in DOMAIN c.elems
                      THEN Collexate(f[c.elems[Unwrap(v)][2]]) ELSE Unwrap(v)
         IN  Done(IdMap_set(m, id, new_v), r.collex, IF r.ret.ok THEN Ok(Unit) ELSE r.ret)

ObjAllocator_modify(m, c, id, f) ==
    LET v == IdMap_get(m, id) IN
    IF v = None THEN Done(m, c, Err("CannotFind", Unit))
    ELSE LET r == FieldCollex_modify(c, Unwrap(v), OnRecord(f)) IN
         IF ~r.ret.ok THEN Done(m, r.collex, r.ret)
         ELSE Done(IdMap_set(m, id, Unwrap(r.ret.v)), r.collex, Ok(Unit))

ObjAllocator_try_modify(m, c, id, f) ==
    LET v == IdMap_get(m, id) IN
    IF v = None THEN Done(m, c, Err("CannotFind", Unit))
    ELSE LET r == FieldCollex_try_modify(c, Unwrap(v), OnRecord(f)) IN
         IF ~r.ret.ok THEN Done(m, r.collex, r.ret)
         ELSE Done(IdMap_set(m, id, Unwrap(r.ret.v)), r.collex, Ok(Unit))

ObjAllocator_extend(m, c, vec) ==
    LET r == extend_from_vec(m, vec) IN
    Done(r.map, FieldCollex_extend(c, r.other), Ok(Unit))

ObjAllocator_try_extend(m, c, vec) ==
    LET r == extend_from_vec(m, vec)
        t == FieldCollex_try_extend(c, r.other)
    IN  Done(r.map, t.collex, t.ret)

ObjAllocator_get_with_id(m, c, id) ==
    LET v == IdMap_get(m, id) IN
    IF v = None THEN None
    ELSE LET o == FieldCollex_get(c, Unwrap(v)) IN
         IF o = None THEN None ELSE Some(Unwrap(o)[2])

---------------------------------------------------------------------------
(* Building an allocator from a batch: FieldCollex::with_elements, by its  *)
(* interface, and ObjAllocator::with_elements.  A constructor returns      *)
(* Result<Self, _>: self is Some(allocator) on Ok and None on Err.         *)

(* with_elements(span, unit, records): every Record must lie in the span   *)
(* and no two may claim the same place; the whole batch or nothing.        *)
FieldCollex_with_elements(span, unit, other) ==
    FieldCollex_try_extend(FieldCollex_new(span, unit), other)

Built(m, c) == [ret |-> Ok(Unit), self |-> Some([id_map |-> m, collex |-> c])]
NotBuilt(err) == [ret |-> Err(err, Unit), self |-> None]

(* Mutant of ObjAllocator_with_elements: the Records the index refuses are *)
(* dropped and the allocator is returned with the rest.                    *)
ObjAllocator_with_elements_lenient(span, unit, vec) ==
    LET r == extend_from_vec(IdMap_with_id, vec) IN
    Built(r.map, FieldCollex_extend(FieldCollex_new(span, unit), r.other))

ObjAllocator_with_elements(span, unit, vec) ==
    LET r == extend_from_vec(IdMap_with_id, vec)
        t == FieldCollex_with_elements(span, unit, r.other)
    IN  IF t.ret.ok THEN Built(r.map, t.collex) ELSE NotBuilt(t.ret.err)

---------------------------------------------------------------------------
(* Serialization (the derive on ObjAllocator, id_map skipped) and          *)
(* deserialization (src/src/deser.rs).  The payload is the index's         *)
(* representation: span, unit and the Records in index order.              *)

RECURSIVE InOrder(_, _)
InOrder(c, vs) ==
    IF vs = {} THEN <<>>
    ELSE LET v == CHOOSE x \in vs : \A y \in vs : x <= y IN
         <<c.elems[v]>> \o InOrder(c, vs \ {v})

(* Iteration over the index: owned Records, by ascending derived value. *)
FieldCollex_into_iter(c) == InOrder(c, DOMAIN c.elems)

FieldCollexSerdeHelper(c) ==
    [span |-> c.span, unit |-> c.unit, elements |-> FieldCollex_into_iter(c)]

(* id_map is #[serde(skip)]: only collex is written. *)
ObjAllocator_serialize(m, c) == FieldCollexSerdeHelper(c)

(* for obj in elements: id_map.insert_with_id(obj.0, obj.1.collexate()) *)
RECURSIVE RestoreIds(_, _)
RestoreIds(m, elements) ==
    IF elements = <<>> THEN m
    ELSE RestoreIds(IdMap_insert_with_id(m, Head(elements)[1],
                                         Obj_collexate(Head(elements))).map,
                    Tail(elements))

ObjAllocator_deserialize(helper) ==
    LET m == RestoreIds(IdMap_with_id, helper.elements)
        t == FieldCollex_with_elements(helper.span, helper.unit, helper.elements)
    IN  IF t.ret.ok THEN Built(m, t.collex) ELSE NotBuilt(t.ret.err)

---------------------------------------------------------------------------
(* The allocator: calls on one ObjAllocator.                               *)

AllocReady == ~panicked /\ n_ops < MaxOps

(* Identifiers a caller tries: 0, every one issued so far, one not yet issued. *)
CallerIds == 0 .. (id_map.max_id + 1)

(* The closures tried by modify / try_modify: f sets the derived field to *)
(* x and changes the rest of the object's state.                           *)
ModFns == {[e \in Elems |-> [val |-> x, tag |-> 1 - e.tag]] : x \in Vals}

(* The objects tried by insert: fresh ones, any derived field. *)
NewElems == {[val |-> x, tag |-> 0] : x \in Vals}

(* The vectors tried by extend / try_extend. *)
BatchElems == {[val |-> x, tag |-> 0] : x \in {1, 2, MaxVal}}
Batches == UNION {[1 .. n -> BatchElems] : n \in 1 .. MaxBatch}

(* The identifiers extend_from_vec issues to a vector, in order. *)
BatchIds(m, vec) == [i \in 1 .. Len(vec) |-> m.max_id + i]

ACall(op, id, elem, f, batch, r) ==
    [op |-> op, id |-> id, elem |-> elem, f |-> f, batch |-> batch,
     res |-> r.ret, panic |-> r.panic, pre |-> id_map, pre_collex |-> collex]

Apply(r, call) ==
    /\ id_map' = r.id_map
    /\ collex' = r.collex
    /\ panicked' = r.panic
    /\ n_ops' = n_ops + 1
    /\ last' = call
    /\ UNCHANGED <<overflow_checks, issued, n_insert, manual>>

Insert ==
    /\ AllocReady
    /\ id_map.max_id < MaxIssue
    /\ \E elem \in NewElems :
        LET r == ObjAllocator_insert(id_map, collex, elem) IN
        /\ Apply(r, ACall("ObjAllocator::insert", id_map.max_id + 1, elem, <<>>, <<>>, r))
        /\ UNCHANGED removed

Remove ==
    /\ AllocReady
    /\ \E id \in CallerIds :
        LET r == ObjAllocator_remove(id_map, collex, id) IN
        /\ Apply(r, ACall("ObjAllocator::remove", id, <<>>, <<>>, <<>>, r))
        /\ removed' = IF r.ret # None THEN removed \cup {id} ELSE removed

Modify ==
    /\ AllocReady
    /\ \E id \in CallerIds, f \in ModFns :
        LET r == ObjAllocator_modify(id_map, collex, id, f) IN
        /\ Apply(r, ACall("ObjAllocator::modify", id, <<>>, f, <<>>, r))
        /\ UNCHANGED removed

TryModify ==
    /\ AllocReady
    /\ \E id \in CallerIds, f \in ModFns :
        LET r == ObjAllocator_try_modify(id_map, collex, id, f) IN
        /\ Apply(r, ACall("ObjAllocator::try_modify", id, <<>>, f, <<>>, r))
        /\ UNCHANGED removed

Extend ==
    /\ AllocReady
    /\ \E vec \in Batches :
        /\ id_map.max_id + Len(vec) <= MaxIssue
        /\ LET r == ObjAllocator_extend(id_map, collex, vec) IN
           /\ Apply(r, ACall("ObjAllocator::extend", 0, <<>>, <<>>, vec, r))
           /\ UNCHANGED removed

TryExtend ==
    /\ AllocReady
    /\ \E vec \in Batches :
        /\ id_map.max_id + Len(vec) <= MaxIssue
        /\ LET r == ObjAllocator_try_extend(id_map, collex, vec) IN
           /\ Apply(r, ACall("ObjAllocator::try_extend", 0, <<>>, <<>>, vec, r))
           /\ UNCHANGED removed

Next ==
    \/ Insert
    \/ Remove
    \/ Modify
    \/ TryModify
    \/ Extend
    \/ TryExtend

Spec == Init /\ [][Next]_vars

---------------------------------------------------------------------------
(* Allocators that are built from a batch or from a payload, used, written *)
(* out and read back.                                                      *)

(* The payloads handed to deserialize: Record lists of any provenance.     *)
PayloadIds == {1, 2, U64Max}
PayloadRecords == {Obj(k, e) : k \in PayloadIds, e \in BatchElems}
Payloads ==
    {[span |-> ASpan, unit |-> AUnit, elements |-> es] :
        es \in UNION {[1 .. n -> PayloadRecords] : n \in 0 .. MaxBatch}}

(* A constructor's result replaces the allocator in hand on Ok; on Err     *)
(* there is no new allocator and the one in hand stays.                    *)
Adopt(r) ==
    IF r.self # None
    THEN Done(Unwrap(r.self).id_map, Unwrap(r.self).collex, r.ret)
    ELSE Done(id_map, collex, r.ret)

WithElements ==
    /\ AllocReady
    /\ n_ops = 0
    /\ \E vec \in Batches :
        LET r == Adopt(ObjAllocator_with_elements(ASpan, AUnit, vec)) IN
        /\ Apply(r, ACall("ObjAllocator::with_elements", 0, <<>>, <<>>, vec, r))
        /\ removed' = {}

Deserialize ==
    /\ AllocReady
    /\ n_ops = 0
    /\ \E helper \in Payloads :
        LET r == Adopt(ObjAllocator_deserialize(helper)) IN
        /\ Apply(r, ACall("ObjAllocator::deserialize", 0, <<>>, <<>>, helper.elements, r))
        /\ removed' = {}

(* serde round trip: the allocator in hand is serialized and the program   *)
(* goes on with what deserialize returns for that payload.                 *)
RoundTrip ==
    /\ AllocReady
    /\ LET helper == ObjAllocator_serialize(id_map, collex)
           r == Adopt(ObjAllocator_deserialize(helper))
       IN  /\ Apply(r, ACall("serde::round_trip", 0, <<>>, <<>>, helper.elements, r))
           /\ removed' = IF r.ret.ok THEN {} ELSE removed

BuildNext ==
    \/ WithElements
    \/ Deserialize
    \/ RoundTrip
    \/ Insert
    \/ Remove
    \/ Extend

SpecBuild == Init /\ [][BuildNext]_vars

---------------------------------------------------------------------------
(* Claims about the identifier store, checked under SpecStore.             *)

AutoIssue == last.op \in {"IdMap::insert", "IdMap::insert_cyclic"}

(* C3: non-reuse.  Every identifier returned by an auto-generating insert  *)
(* (insert, insert_cyclic) is strictly greater than every identifier that  *)
(* was issued or manually inserted before the call, whatever removes and   *)
(* clears came in between.                                                 *)
C3_NonReuse ==
    (AutoIssue /\ ~last.panic) => \A j \in last.pre_issued : last.id > j

(* C4: on a fresh store with only insert (no insert_with_id, no            *)
(* insert_cyclic) issuing identifiers, removes, get_mut and clear          *)
(* interleaved, the k-th insert returns identifier k.                      *)
C4_KthInsertReturnsK ==
    (last.op = "IdMap::insert" /\ ~manual) => (~last.panic /\ last.id = n_insert)

C4_Witness ==
    /\ last.op = "IdMap::insert" /\ ~manual /\ n_insert = MaxInserts
    /\ IdMap_len(last.pre) < n_insert - 1

C5_Unchanged ==
    (last.op = "IdMap::insert_with_id" /\ last.id <= last.pre.max_id)
        => id_map.max_id = last.pre.max_id

AfterRaise == AutoIssue /\ last.prev.op = "IdMap::insert_with_id" /\ last.prev.raised

---------------------------------------------------------------------------
(* Claims about the allocator, checked under Spec.                         *)

Records(c) == {c.elems[v] : v \in DOMAIN c.elems}
RecordIds(c) == {o[1] : o \in Records(c)}
RecordOf(c, id) == {o \in Records(c) : o[1] = id}

IsInsert == last.op = "ObjAllocator::insert"
IsModify == last.op \in {"ObjAllocator::modify", "ObjAllocator::try_modify"}
IsExtend == last.op \in {"ObjAllocator::extend", "ObjAllocator::try_extend"}

(* C1: the core invariant.  After every allocator call, the keys of the    *)
(* Identifier Store are exactly the identifiers carried by the Records of  *)
(* the Field Index, and the value stored for each is its Record's current  *)
(* derived value.                                                          *)
C1_CoreInvariant ==
    ~panicked =>
        /\ DOMAIN id_map.inner = RecordIds(collex)
        /\ \A o \in Records(collex) :
              o[1] \in DOMAIN id_map.inner => id_map.inner[o[1]] = Obj_collexate(o)

RejectedOutOfSpan == IsInsert /\ ~last.res.ok /\ last.res.err = "OutOfSpan"

(* C2 as stated: an insert rejected as out of span leaves the Identifier   *)
(* Store's size and its max_id as they were before the call.               *)
C2_Original ==
    RejectedOutOfSpan =>
        /\ IdMap_len(id_map) = IdMap_len(last.pre)
        /\ id_map.max_id = last.pre.max_id

(* C2 amended: an insert rejected as out of span leaves the Identifier     *)
(* Store's entries, and so its size, as they were before the call; max_id  *)
(* is not restored: it is one greater than before, the reserved identifier *)
(* being spent (for max_id < u64::MAX before the call).                    *)
C2_RejectedInsertSpendsId ==
    (RejectedOutOfSpan /\ last.pre.max_id < U64Max) =>
        /\ id_map.inner = last.pre.inner
        /\ IdMap_len(id_map) = IdMap_len(last.pre)
        /\ id_map.max_id = last.pre.max_id + 1

C2_Witness ==
    /\ RejectedOutOfSpan
    /\ last.elem.val = MaxVal
    /\ IdMap_len(last.pre) >= 1

PreObj(id) == (CHOOSE o \in RecordOf(last.pre_collex, id) : TRUE)[2]
LiveBefore(id) ==
    /\ IdMap_contains_id(last.pre, id)
    /\ RecordOf(last.pre_collex, id) # {}
NewObj(id) == last.f[PreObj(id)]
SlotFree(id) ==
    \/ Collexate(NewObj(id)) \notin DOMAIN last.pre_collex.elems
    \/ Collexate(NewObj(id)) = Collexate(PreObj(id))

(* C7: for a live identifier id, modify(id, f) with f's new derived value  *)
(* inside the span (and its slot not held by another Record) succeeds;     *)
(* afterwards get_with_id(id) is the object in its new state, the Record   *)
(* is under the new derived value and no longer under the old one, the     *)
(* Identifier Store maps id to the new value, the Record still carries id. *)
C7_ModifyRelocates ==
    (/\ last.op = "ObjAllocator::modify"
     /\ LiveBefore(last.id)
     /\ InSpan(last.pre_collex, Collexate(NewObj(last.id)))
     /\ SlotFree(last.id))
    => LET new_v == Collexate(NewObj(last.id))
           old_v == Collexate(PreObj(last.id))
       IN  /\ last.res.ok
           /\ ObjAllocator_get_with_id(id_map, collex, last.id) = Some(NewObj(last.id))
           /\ FieldCollex_get(collex, new_v) = Some(Obj(last.id, NewObj(last.id)))
           /\ new_v # old_v => FieldCollex_get(collex, old_v) = None
           /\ IdMap_get(id_map, last.id) = Some(new_v)

(* C8: a rejected insert returns OutOfSpan(v) when the derived value is    *)
(* outside the span and AlreadyExist(v) when its slot is occupied, v being *)
(* the value passed in; afterwards the reserved identifier is not a key of *)
(* the Identifier Store and the Field Index holds the Records it held.     *)
C8_RejectedInsertRollsBack ==
    (IsInsert /\ ~last.res.ok) =>
        /\ last.res.err = (IF InSpan(last.pre_collex, Collexate(last.elem))
                           THEN "AlreadyExist" ELSE "OutOfSpan")
        /\ last.res.err = "AlreadyExist"
              => Collexate(last.elem) \in DOMAIN last.pre_collex.elems
        /\ last.res.v = {last.elem}
        /\ ~IdMap_contains_id(id_map, last.id)
        /\ last.id = last.pre.max_id + 1
        /\ Records(collex) = Records(last.pre_collex)

C8_Witness ==
    /\ IsInsert /\ ~last.res.ok
    /\ last.res.err = "AlreadyExist"
    /\ IdMap_len(id_map) >= 1

(* C9: after extend or try_extend returns, every element of the batch the  *)
(* Field Index rejected has no entry left in the Identifier Store, and     *)
(* every accepted element is returned by get_with_id under the identifier  *)
(* issued to it.                                                           *)
C9_ExtendAtomic ==
    IsExtend =>
        \A i \in 1 .. Len(last.batch) :
            LET id == BatchIds(last.pre, last.batch)[i]
                accepted == Obj(id, last.batch[i]) \in Records(collex)
            IN  IF accepted
                THEN ObjAllocator_get_with_id(id_map, collex, id) = Some(last.batch[i])
                ELSE ~IdMap_contains_id(id_map, id)

(* C10: in every reachable state get_with_id(id) returns nothing for a     *)
(* removed identifier and for one never issued (0, or above max_id), and   *)
(* what it returns is the object of the Record that carries id.            *)
C10_GetWithId ==
    ~panicked =>
        \A id \in Ids :
            LET g == ObjAllocator_get_with_id(id_map, collex, id) IN
            /\ (id \in removed \/ id = 0 \/ id > id_map.max_id) => g = None
            /\ g # None => Obj(id, Unwrap(g)) \in Records(collex)

IsRemove == last.op = "ObjAllocator::remove"

(* C11: after remove(id) of a live identifier the call has returned id's   *)
(* object and the slot it occupied is free again: an insert of an object   *)
(* with the removed object's derived field succeeds and returns the fresh  *)
(* identifier max_id + 1, never id.                                        *)
C11_RemoveFreesSlot ==
    (IsRemove /\ LiveBefore(last.id)) =>
        LET v == Collexate(PreObj(last.id))
            r == ObjAllocator_insert(id_map, collex, [val |-> v, tag |-> 0])
        IN  /\ ~last.panic
            /\ last.res = Some(PreObj(last.id))
            /\ FieldCollex_get(collex, v) = None
            /\ r.ret.ok
            /\ r.ret.v = {id_map.max_id + 1}
            /\ Unwrap(r.ret.v) # last.id

(* C16: remove(id) for an identifier present in the Identifier Store finds *)
(* a Record under the stored derived value (its unwrap does not abort),    *)
(* and the Record it removes and returns is the one carrying id.           *)
C16_RemoveFindsOwnRecord ==
    (IsRemove /\ IdMap_contains_id(last.pre, last.id)) =>
        /\ ~last.panic
        /\ last.res # None
        /\ Obj(last.id, Unwrap(last.res)) \in Records(last.pre_collex)
        /\ Records(collex) = Records(last.pre_collex) \ {Obj(last.id, Unwrap(last.res))}

(* C20: remove(id) affects only id.  With id absent it returns nothing and *)
(* leaves the Field Index, the Identifier Store and max_id unchanged; with *)
(* id present, every other live identifier resolves through get_with_id to *)
(* the same object as before, and max_id is unchanged.                     *)
C20_RemoveFrame ==
    IsRemove =>
        IF ~IdMap_contains_id(last.pre, last.id)
        THEN /\ last.res = None
             /\ collex = last.pre_collex
             /\ id_map = last.pre
        ELSE /\ id_map.max_id = last.pre.max_id
             /\ \A j \in Ids \ {last.id} :
                  LiveBefore(j) =>
                    ObjAllocator_get_with_id(id_map, collex, j)
                      = ObjAllocator_get_with_id(last.pre, last.pre_collex, j)

---------------------------------------------------------------------------
(* Claims about allocators that are built, written out and read back,      *)
(* checked under SpecBuild.                                                *)

CoreInvariantOf(m, c) ==
    /\ DOMAIN m.inner = RecordIds(c)
    /\ IdMap_len(m) = Cardinality(Records(c))
    /\ \A o \in Records(c) :
          /\ IdMap_get(m, o[1]) = Some(Obj_collexate(o))
          /\ ObjAllocator_get_with_id(m, c, o[1]) = Some(o[2])

IsWithElements == last.op = "ObjAllocator::with_elements"

(* A batch the index must refuse: a value outside the span, or two values  *)
(* for the same place.                                                     *)
BadBatch(vec) ==
    \/ \E i \in DOMAIN vec : ~(ASpan[1] <= Collexate(vec[i]) /\ Collexate(vec[i]) < ASpan[2])
    \/ \E i, j \in DOMAIN vec : i # j /\ Collexate(vec[i]) = Collexate(vec[j])

(* C13: with_elements(span, unit, values) on success returns an allocator  *)
(* in which the i-th value carries identifier i, max_id is the number of   *)
(* values and the core invariant holds; if a value is outside the span or  *)
(* two values target the same slot it returns an error and no allocator.   *)
C13_WithElements ==
    IsWithElements =>
        LET vec == last.batch
            r == ObjAllocator_with_elements(ASpan, AUnit, vec)
        IN  IF BadBatch(vec)
            THEN /\ ~last.res.ok
                 /\ r.self = None
                 /\ id_map = last.pre /\ collex = last.pre_collex
            ELSE /\ last.res.ok
                 /\ r.self = Some([id_map |-> id_map, collex |-> collex])
                 /\ id_map.max_id = Len(vec)
                 /\ \A i \in DOMAIN vec :
                       /\ RecordOf(collex, i) = {Obj(i, vec[i])}
                       /\ ObjAllocator_get_with_id(id_map, collex, i) = Some(vec[i])
                 /\ CoreInvariantOf(id_map, collex)

C13_Witness ==
    /\ IsWithElements /\ last.res.ok
    /\ Len(last.batch) = MaxBatch
    /\ Cardinality(Records(collex)) = MaxBatch

C13_WitnessRefused ==
    /\ IsWithElements /\ ~last.res.ok
    /\ Len(last.batch) = MaxBatch
    /\ last.res.err = "AlreadyExist"

IsRoundTrip == last.op = "serde::round_trip"
IsDeserialize == last.op = "ObjAllocator::deserialize"

(* The (identifier, derived value) pairs an IdMap holds. *)
Pairs(m) == {<<k, m.inner[k]>> : k \in DOMAIN m.inner}

(* C12: serializing an allocator and deserializing the result, populated   *)
(* or empty, gives an allocator with the same span, the same unit, the     *)
(* same Records in the same order, and an Identifier Store holding exactly *)
(* the same set of (identifier, derived value) pairs.                      *)
C12_RoundTrip ==
    IsRoundTrip =>
        /\ last.res.ok
        /\ collex.span = last.pre_collex.span
        /\ collex.unit = last.pre_collex.unit
        /\ FieldCollex_into_iter(collex) = FieldCollex_into_iter(last.pre_collex)
        /\ Pairs(id_map) = Pairs(last.pre)

(* C17: after a successful deserialization max_id is at least every        *)
(* identifier carried by a restored Record, so the first insert on the     *)
(* deserialized allocator returns an identifier strictly greater than      *)
(* every restored identifier.                                              *)
C17_InsertAfterDeserialize ==
    (IsDeserialize /\ last.res.ok) =>
        /\ \A k \in RecordIds(collex) : id_map.max_id >= k
        /\ ~IdMap_overflows(id_map)             \* the insert's max_id += 1
        /\ \A elem \in NewElems :
              LET r == ObjAllocator_insert(id_map, collex, elem) IN
              r.ret.ok => \A k \in RecordIds(collex) : Unwrap(r.ret.v) > k

(* C18: a serialize/deserialize round trip recovers the Identifier Store   *)
(* with its counter: max_id is the original's, so an identifier the        *)
(* original issued and later removed is never issued again.                *)
C18_RoundTripKeepsCounter ==
    (IsRoundTrip /\ last.res.ok) =>
        /\ id_map.max_id = last.pre.max_id
        /\ last.pre.max_id < U64Max =>
              \A elem \in NewElems :
                 LET r == ObjAllocator_insert(id_map, collex, elem) IN
                 r.ret.ok => Unwrap(r.ret.v) > last.pre.max_id

(* C19: every allocator deserialization returns satisfies the core         *)
(* invariant, for any payload the index accepts, one in which two Records  *)
(* with different derived values carry the same identifier included: as    *)
(* many Identifier Store entries as Records, and get_with_id(r.identifier) *)
(* is r's object for every Record r.                                       *)
C19_DeserializedCoreInvariant ==
    (IsDeserialize /\ last.res.ok) => CoreInvariantOf(id_map, collex)

---------------------------------------------------------------------------
(* C15: max_id never decreases.  After each operation of the Identifier    *)
(* Store or of the allocator, max_id is greater than or equal to its value *)
(* before the operation, and every key of the store is <= max_id.          *)
C15_MaxIdMonotonic ==
    /\ id_map.max_id >= last.pre.max_id
    /\ \A k \in DOMAIN id_map.inner : k <= id_map.max_id

---------------------------------------------------------------------------
(* Checked under SpecCyclic.                                               *)

IsCyclic == last.op = "IdMap::insert_cyclic"

=============================================================================
